---- MODULE Spec2Model ----
(***************************************************************************)
(* Extension-WebSearch: the search orchestrator (result cache, query       *)
(* executor, text budgeter), the link filter and the page visitor of       *)
(* src/index.js.                                                           *)
(*                                                                         *)
(* A JavaScript string is modelled as a sequence of one-character strings, *)
(* so that slicing, trimming, prefix/suffix and substring tests are        *)
(* computed the way the code computes them.                                *)
(***************************************************************************)
EXTENDS Integers, Sequences, FiniteSets, TLC

VARIABLES
    extension_settings, \* the settings record the host shares with the extension
    storage,            \* the localforage instance: cache key -> entry
    now,                \* Date.now(), in milliseconds
    calls,              \* the performSearchRequest calls in flight, per caller
    prev,               \* the last completed performSearchRequest call
    budgeter,           \* one run of the text assembly loop on given bits
    visitor,            \* one run of collectVisitResults
    filter,             \* one evaluation of isAllowedUrl
    executor,           \* one run of doSerperQuery
    tools,              \* the function tools registered with the host
    secret_state,       \* the host's record of the secrets that are set
    invocation          \* the last invocation of the WebSearch tool action

vars == <<extension_settings, storage, now, calls, prev, budgeter, visitor, filter,
          executor, tools, secret_state, invocation>>

\* What the searches, the budgeter, the filter and the visitor leave alone.
aside == <<executor, tools, secret_state>>

-----------------------------------------------------------------------------
(* Bounds of the model. *)

MaxBits == 2        \* text bits per payload in the budgeter runs
MaxBitLen == 1      \* every string up to this length is a text bit
MaxBudget == 7      \* budgets 0..MaxBudget
MaxLinks == 4       \* links handed to collectVisitResults
MaxBlacklist == 2   \* entries of visit_blacklist
MaxCount == 2       \* visit counts 0..MaxCount
MaxTicks == 3       \* clock ticks of half a second

-----------------------------------------------------------------------------
(* Strings. *)

NL == "\n"
Whitespace == {" ", NL}

Max(a, b) == IF a >= b THEN a ELSE b
Min(a, b) == IF a <= b THEN a ELSE b

\* String.prototype.slice(from, to) with 0 <= from, to (0-based, to exclusive).
Slice(s, from, to) == SubSeq(s, from + 1, Min(to, Len(s)))

\* String.prototype.substring(from).
Substring(s, from) == SubSeq(s, from + 1, Len(s))

endsWith(s, suf) ==
    /\ Len(suf) <= Len(s)
    /\ SubSeq(s, Len(s) - Len(suf) + 1, Len(s)) = suf

startsWith(s, pre) ==
    /\ Len(pre) <= Len(s)
    /\ SubSeq(s, 1, Len(pre)) = pre

\* String.prototype.includes(sub).
includes(s, sub) ==
    \E i \in 0..(Len(s) - Len(sub)) : SubSeq(s, i + 1, i + Len(sub)) = sub

\* String.prototype.indexOf(ch): 0-based, -1 when absent.
indexOf(s, ch) ==
    IF \E i \in 1..Len(s) : s[i] = ch
    THEN (CHOOSE i \in 1..Len(s) : s[i] = ch /\ \A j \in 1..(i - 1) : s[j] # ch) - 1
    ELSE -1

RECURSIVE trimEnd(_)
trimEnd(s) ==
    IF s # <<>> /\ s[Len(s)] \in Whitespace THEN trimEnd(SubSeq(s, 1, Len(s) - 1)) ELSE s

RECURSIVE trimStart(_)
trimStart(s) ==
    IF s # <<>> /\ s[1] \in Whitespace THEN trimStart(Tail(s)) ELSE s

trim(s) == trimStart(trimEnd(s))

Ellipsis == <<".", ".", ".">>

-----------------------------------------------------------------------------
(* The helpers src/index.js imports from the host's utils.js (lines 18-20). *)

\* onlyUnique as a filter: keep the first occurrence of every value.
onlyUnique(s) ==
    LET keep(i) == \A j \in 1..(i - 1) : s[j] # s[i]
        F[i \in 0..Len(s)] ==
            IF i = 0 THEN <<>>
            ELSE IF keep(i) THEN Append(F[i - 1], s[i]) ELSE F[i - 1]
    IN F[Len(s)]

\* The ASCII members of the set utils.js tests (its quote characters and the
\* non-ASCII ones are outside the alphabets used here).
Punctuation == {".", "!", "?", "*", ")", "}", "]", "$", "_"}

\* trimToEndSentence: cut after the last punctuation character (before it when
\* it follows whitespace), then trimEnd; without punctuation only trimEnd.
trimToEndSentence(input) ==
    IF \E i \in 1..Len(input) : input[i] \in Punctuation
    THEN LET p == CHOOSE i \in 1..Len(input) :
                      /\ input[i] \in Punctuation
                      /\ \A j \in (i + 1)..Len(input) : input[j] \notin Punctuation
             last == IF p > 1 /\ input[p - 1] \in Whitespace THEN p - 1 ELSE p
         IN trimEnd(SubSeq(input, 1, last))
    ELSE trimEnd(input)

\* trimToStartSentence: drop everything up to the first sentence end.
trimToStartSentence(input) ==
    IF input = <<>> THEN <<>>
    ELSE LET p1 == indexOf(input, ".")
             p2 == indexOf(input, "!")
             p3 == indexOf(input, "?")
             p4 == indexOf(input, NL)
             f2 == IF p2 > 0 /\ p2 < p1 THEN p2 ELSE p1
             f3 == IF p3 > 0 /\ p3 < f2 THEN p3 ELSE f2
             skip1 == p4 > 0 /\ p4 < f3
             first == IF skip1 THEN p4 ELSE f3
         IN IF first > 0
            THEN IF skip1 THEN Substring(input, first + 1)
                          ELSE Substring(input, first + 2)
            ELSE input

-----------------------------------------------------------------------------
(* The text assembly of performSearchRequest (src/index.js 331-362). *)

\* Lines 339-344: an ellipsis at either end marks an incomplete sentence.
trimSnippet(snippet) ==
    LET s1 == IF endsWith(snippet, Ellipsis)
              THEN trim(trimToEndSentence(Slice(snippet, 0, Len(snippet) - 3)))
              ELSE snippet
    IN IF startsWith(s1, Ellipsis)
       THEN trim(trimToStartSentence(Substring(s1, 3)))
       ELSE s1

roomKeepingNewlineOut(remaining) == Max(0, remaining)

\* Line 354: the characters left for the snippet, one kept for the newline.
room(remaining) == Max(0, remaining - 1)

\* Lines 349-357: what of the snippet is appended to a text of length textLen.
toAdd(snippet, textLen, budgetChars) ==
    LET remaining == budgetChars - textLen
    IN IF Len(snippet) + 1 > remaining
       THEN trim(trimToEndSentence(Slice(snippet, 0, room(remaining))))
       ELSE snippet

RECURSIVE assembleFromJoining(_, _, _, _)
assembleFromJoining(bits, i, text, budgetChars) ==
    IF i > Len(bits) THEN text
    ELSE IF bits[i] = <<>> THEN assembleFromJoining(bits, i + 1, text, budgetChars)
    ELSE LET snippet == trimSnippet(bits[i])
         IN IF snippet = <<>> THEN assembleFromJoining(bits, i + 1, text, budgetChars)
            ELSE IF Len(text) >= budgetChars THEN text
            ELSE LET add == toAdd(snippet, Len(text), budgetChars)
                     sep == IF text = <<>> THEN <<>> ELSE <<NL>>
                 IN IF add = <<>>
                    THEN assembleFromJoining(bits, i + 1, text, budgetChars)
                    ELSE assembleFromJoining(bits, i + 1, text \o sep \o add,
                                             budgetChars)

\* Lines 335-362: the loop over the deduplicated bits, from bit i on.
RECURSIVE assembleFrom(_, _, _, _)
assembleFrom(bits, i, text, budgetChars) ==
    IF i > Len(bits) THEN text
    ELSE IF bits[i] = <<>> THEN assembleFrom(bits, i + 1, text, budgetChars)
    ELSE LET snippet == trimSnippet(bits[i])
         IN IF snippet = <<>> THEN assembleFrom(bits, i + 1, text, budgetChars)
            ELSE IF Len(text) >= budgetChars THEN text
            ELSE LET add == toAdd(snippet, Len(text), budgetChars)
                 IN IF add = <<>> THEN assembleFrom(bits, i + 1, text, budgetChars)
                    ELSE assembleFrom(bits, i + 1, text \o add \o <<NL>>, budgetChars)

assembleTextDedupAfterTrim(textBits, budgetChars) ==
    assembleFrom(onlyUnique([i \in 1..Len(textBits) |-> trimSnippet(textBits[i])]),
                 1, <<>>, budgetChars)

\* Line 335: the loop runs over textBits.filter(onlyUnique).
assembleText(textBits, budgetChars) ==
    assembleFrom(onlyUnique(textBits), 1, <<>>, budgetChars)

-----------------------------------------------------------------------------
(* Text bits of the budgeter runs. *)

BitAlphabet == {"a", ".", " "}

RECURSIVE StringsUpTo(_, _)
StringsUpTo(alphabet, n) ==
    IF n = 0 THEN {<<>>}
    ELSE LET shorter == StringsUpTo(alphabet, n - 1)
         IN shorter \cup {Append(s, c) : s \in shorter, c \in alphabet}

\* Longer snippets: words, sentence ends and whitespace at either end,
\* ellipses at either end, several sentences, no sentence end.
LongBits == {
    <<"a", "a">>, <<"a", ".">>, <<"a", " ">>,
    <<".", "a">>, <<".", ".">>, <<".", " ">>,
    <<" ", "a">>, <<" ", ".">>, <<" ", " ">>,
    <<"a", "a", "a", "a", "a", " ", "a", "a", "a", "a", "a", ".", ".", ".">>,
    <<".", ".", ".", "a", "a", "a", " ", "a", "a", "a", "a", ".">>,
    <<"a", "a", ".", " ", "a", "a", "a", ".">>,
    <<".", ".", ".", "a", ".", " ", "a", "a", ".">>,
    <<"a", "a", "a", " ", "a", "a", "a">>,
    <<"a", "a", ".", " ", "a", "a", ".", ".", ".">>,
    <<"a", ".", ".", ".", ".">> }

BitUniverse == StringsUpTo(BitAlphabet, MaxBitLen) \cup LongBits

RECURSIVE SeqsUpTo(_, _)
SeqsUpTo(S, n) ==
    IF n = 0 THEN {<<>>}
    ELSE LET shorter == SeqsUpTo(S, n - 1)
         IN shorter \cup {Append(s, x) : s \in shorter, x \in S}

Budgets == 0..MaxBudget

-----------------------------------------------------------------------------
(* The link filter (src/index.js 75-89). *)

HttpsScheme == <<"h", "t", "t", "p", "s", ":", "/", "/">>
Upper == {"A", "B", "C", "D", "E", "F"}
Lower == {"a", "b", "c", "d", "e", "f"}
HostChars == Upper \cup Lower \cup {".", "-"}

toLowerChar(c) ==
    CASE c = "A" -> "a" [] c = "B" -> "b" [] c = "C" -> "c"
      [] c = "D" -> "d" [] c = "E" -> "e" [] c = "F" -> "f"
      [] OTHER -> c

toLowerCase(s) == [i \in 1..Len(s) |-> toLowerChar(s[i])]

\* The host part of "https://host[/path]": up to the first slash after the scheme.
HostPart(link) ==
    LET rest == Substring(link, Len(HttpsScheme))
        slash == indexOf(rest, "/")
    IN IF slash = -1 THEN rest ELSE Slice(rest, 0, slash)

\* new URL(link) on links of the form https://host[/path]: anything else, an
\* empty host or a host with a forbidden character (a space) throws.
URLParses(link) ==
    /\ startsWith(link, HttpsScheme)
    /\ HostPart(link) # <<>>
    /\ \A i \in 1..Len(HostPart(link)) : HostPart(link)[i] \in HostChars

\* url.hostname: the parser lower-cases the host.
hostname(link) == toLowerCase(HostPart(link))

\* Line 79: the entry is tested for being blank after trim(), and then looked
\* up in the hostname as it is written.
isBlacklisted(y, host) == trim(y) # <<>> /\ includes(host, y)

isAllowedUrl(link) ==
    IF URLParses(link)
    THEN ~ \E k \in 1..Len(extension_settings.visit_blacklist) :
               isBlacklisted(extension_settings.visit_blacklist[k], hostname(link))
    ELSE FALSE

\* Links: two plain hosts, a host that only contains "b.c", an upper-case
\* spelling, and a string that is no URL.
LinkE == <<"h", "t", "t", "p", "s", ":", "/", "/", "e", ".", "f", "/">>
LinkB == <<"h", "t", "t", "p", "s", ":", "/", "/", "b", ".", "c", "/", "x">>
LinkAB == <<"h", "t", "t", "p", "s", ":", "/", "/", "a", "b", ".", "c", ".", "d">>
LinkUp == <<"h", "t", "t", "p", "s", ":", "/", "/", "B", ".", "C", "/">>
LinkBad == <<"b", " ", "c">>
LinkPool == {LinkE, LinkB, LinkAB, LinkUp, LinkBad}

\* Blacklist entries: a domain, the same with surrounding whitespace, an
\* upper-case spelling, a blank entry and the empty entry.
EntryBC == <<"b", ".", "c">>
EntryPool == {EntryBC, <<" ", "b", ".", "c">>, <<"b", ".", "c", " ">>,
              <<"B", ".", "c">>, <<"e", ".", "f">>, <<" ">>, <<>>}
Blacklists == SeqsUpTo(EntryPool, MaxBlacklist)

-----------------------------------------------------------------------------
(* The query executor (src/index.js 198-285). *)

\* A response body as Serper sends it. An optional object is a sequence of
\* length 0 or 1, and a missing array is the empty sequence.
NoData == [answerBox |-> <<>>, knowledgeGraph |-> <<>>, organic |-> <<>>,
           peopleAlsoAsk |-> <<>>, images |-> <<>>]

\* A settled fetch: rejected, or fulfilled with a status and a body that
\* json() parses or not.
Rejected == [status |-> "rejected", ok |-> FALSE, parses |-> FALSE, data |-> NoData]
NotOk == [status |-> "fulfilled", ok |-> FALSE, parses |-> TRUE, data |-> NoData]
BadBody == [status |-> "fulfilled", ok |-> TRUE, parses |-> FALSE, data |-> NoData]
Ok(data) == [status |-> "fulfilled", ok |-> TRUE, parses |-> TRUE, data |-> data]
\* Promise.resolve(null) of line 215: fulfilled, with no response in it.
NoRequest == [status |-> "fulfilled", ok |-> FALSE, parses |-> TRUE, data |-> NoData]

\* A request that was sent and has not settled.
Pending == [status |-> "pending", ok |-> FALSE, parses |-> TRUE, data |-> NoData]

Join(a, b) == a \o <<" ">> \o b

webTextBitsOrganicFirst(data) ==
    [i \in 1..Len(data.organic) |-> data.organic[i].snippet]
    \o [i \in 1..Len(data.answerBox) |->
           Join(data.answerBox[i].title, data.answerBox[i].answer)]
    \o (IF data.knowledgeGraph = <<>> THEN <<>>
        ELSE LET kg == data.knowledgeGraph[1]
             IN <<Join(kg.title, kg.type)>>
                \o [i \in 1..Len(kg.attributes) |->
                       kg.attributes[i][1] \o <<":", " ">> \o kg.attributes[i][2]])
    \o [i \in 1..Len(data.peopleAlsoAsk) |->
           Join(data.peopleAlsoAsk[i].question, data.peopleAlsoAsk[i].snippet)]

\* Lines 230-257: the text bits, links and images of a web response body.
webTextBits(data) ==
    [i \in 1..Len(data.answerBox) |->
        Join(data.answerBox[i].title, data.answerBox[i].answer)]
    \o (IF data.knowledgeGraph = <<>> THEN <<>>
        ELSE LET kg == data.knowledgeGraph[1]
             IN <<Join(kg.title, kg.type)>>
                \o [i \in 1..Len(kg.attributes) |->
                       kg.attributes[i][1] \o <<":", " ">> \o kg.attributes[i][2]])
    \o [i \in 1..Len(data.organic) |-> data.organic[i].snippet]
    \o [i \in 1..Len(data.peopleAlsoAsk) |->
           Join(data.peopleAlsoAsk[i].question, data.peopleAlsoAsk[i].snippet)]

webLinks(data) ==
    [i \in 1..Len(data.organic) |-> data.organic[i].link]
    \o [i \in 1..Len(data.peopleAlsoAsk) |-> data.peopleAlsoAsk[i].link]

webImages(data, includeImages) == IF includeImages THEN data.images ELSE <<>>

EmptyPayload == [textBits |-> <<>>, links |-> <<>>, images |-> <<>>]

\* json() of a body that does not parse rejects, and doSerperQuery with it.
doSerperQueryThrows(webResponse, imageResponse) ==
    \/ webResponse.status = "fulfilled" /\ webResponse.ok /\ ~webResponse.parses
    \/ imageResponse.status = "fulfilled" /\ imageResponse.ok /\ ~imageResponse.parses

doSerperQueryAllOrNothing(webResponse, imageResponse, includeImages) ==
    LET webOk == webResponse.status = "fulfilled" /\ webResponse.ok
        imgOk == imageResponse.status = "fulfilled" /\ imageResponse.ok
    IN IF webOk /\ (imgOk \/ ~includeImages)
       THEN [textBits |-> webTextBits(webResponse.data),
             links |-> webLinks(webResponse.data),
             images |-> webImages(webResponse.data, includeImages)
                        \o (IF imgOk THEN imageResponse.data.images ELSE <<>>)]
       ELSE EmptyPayload

\* The payload of the two settled requests; includeImages is the setting as
\* read on entry (line 200).
doSerperQuery(webResponse, imageResponse, includeImages) ==
    LET webOk == webResponse.status = "fulfilled" /\ webResponse.ok
        imgOk == imageResponse.status = "fulfilled" /\ imageResponse.ok
    IN [textBits |-> IF webOk THEN webTextBits(webResponse.data) ELSE <<>>,
        links |-> IF webOk THEN webLinks(webResponse.data) ELSE <<>>,
        images |-> (IF webOk THEN webImages(webResponse.data, includeImages) ELSE <<>>)
                   \o (IF imgOk THEN imageResponse.data.images ELSE <<>>)]

\* What the provider answers in the model.
Img1 == <<"i", "1">>
Img2 == <<"i", "2">>

\* Two organic results with the same snippet and link, one without snippet.
DataOrganic ==
    [NoData EXCEPT
        !.organic = <<[snippet |-> <<"a", ".", " ", "a", "a", ".">>, link |-> LinkE],
                      [snippet |-> <<>>, link |-> LinkB],
                      [snippet |-> <<"a", ".", " ", "a", "a", ".">>, link |-> LinkE]>>,
        !.images = <<Img1, Img1>>]

\* An answer box, a knowledge graph and a related question.
DataAnswer ==
    [NoData EXCEPT
        !.answerBox = <<[title |-> <<"a">>, answer |-> <<"a", ".">>]>>,
        !.knowledgeGraph = <<[title |-> <<"a">>, type |-> <<"a", ".">>,
                              attributes |-> << << <<"a">>, <<"a">> >> >>]>>,
        !.peopleAlsoAsk = <<[question |-> <<"a">>, snippet |-> <<"a", "a", ".", ".", ".">>, link |-> LinkB]>>]

\* Links and images, and snippets that the trimming empties.
DataNoText ==
    [NoData EXCEPT
        !.organic = <<[snippet |-> Ellipsis, link |-> LinkE],
                      [snippet |-> <<>>, link |-> LinkE]>>,
        !.images = <<Img2>>]

DataImages == [NoData EXCEPT !.images = <<Img2, Img1, Img2>>]

\* Every section at once: an answer box, a knowledge graph with two
\* attributes, two organic results of which the first has no snippet, a
\* related question, and an image.
DataFull ==
    [NoData EXCEPT
        !.answerBox = <<[title |-> <<"a">>, answer |-> <<".">>]>>,
        !.knowledgeGraph = <<[title |-> <<"a">>, type |-> <<"a">>,
                              attributes |-> << << <<"a">>, <<".">> >>,
                                                << <<".">>, <<"a">> >> >>]>>,
        !.organic = <<[snippet |-> <<>>, link |-> LinkB],
                      [snippet |-> <<"a", "a", ".">>, link |-> LinkE]>>,
        !.peopleAlsoAsk = <<[question |-> <<"a">>, snippet |-> <<"a">>, link |-> LinkAB]>>,
        !.images = <<Img1>>]

WebResponses == {Rejected, NotOk, BadBody, Ok(NoData), Ok(DataOrganic),
                 Ok(DataAnswer), Ok(DataNoText)}
ImageResponses == {Rejected, NotOk, BadBody, Ok(NoData), Ok(DataImages)}

-----------------------------------------------------------------------------
(* Settings, clock and cache. *)

MaxCallers == 1     \* performSearchRequest calls that can be in flight
MaxLifetime == 1    \* cacheLifetime 0..MaxLifetime seconds

MsPerSec == 1000
TickMs == MsPerSec \div 2

Lifetimes == 0..MaxLifetime
\* The budgets the settings handler is given in the orchestrator runs.
SearchBudgets == {0, MaxBudget \div 2, MaxBudget}
VisitCounts == 0..MaxCount

\* defaultSettings (lines 34-50), scaled to the model's bounds.
ModelSettings ==
    [enabled |-> FALSE, budget |-> MaxBudget, cacheLifetime |-> MaxLifetime,
     visit_count |-> MaxCount, visit_blacklist |-> <<EntryBC>>,
     include_images |-> FALSE]

Queries == {"q"}
Callers == 1..MaxCallers

cacheKeyNormalised(query) ==
    <<"query_", IF query \in {"Q", "q "} THEN "q" ELSE query>>

\* Line 299.
cacheKey(query) == <<"query_", query>>
CacheKeys == {cacheKey(q) : q \in Queries}

EmptyResult == [text |-> <<>>, links |-> <<>>, images |-> <<>>]
\* getItem's null: no entry under the key.
NoEntry == [text |-> <<>>, links |-> <<>>, images |-> <<>>, timestamp |-> -1]

resultOf(entry) == [text |-> entry.text, links |-> entry.links, images |-> entry.images]

isExpiredInclusive(entry, cacheLifetime, t) ==
    entry.timestamp + cacheLifetime * MsPerSec <= t

isExpiredReversed(entry, cacheLifetime, t) ==
    entry.timestamp + cacheLifetime * MsPerSec > t

\* Line 306.
isExpired(entry, cacheLifetime, t) ==
    entry.timestamp + cacheLifetime * MsPerSec < t

IdleCall ==
    [pc |-> "idle", query |-> "", useCache |-> FALSE, cacheLifetime |-> 0,
     includeImages |-> FALSE, entry |-> NoEntry, ret |-> EmptyResult,
     queried |-> 0, raw |-> EmptyPayload, budgetMax |-> 0, threw |-> FALSE,
     requests |-> [web |-> 0, image |-> 0]]

\* A call is in flight until it returns or rejects.
InFlight(c) == calls[c].pc \notin {"idle", "done", "rejected"}
NoCallInFlight == \A c \in Callers : ~InFlight(c)

\* The call returns ret: its locals are gone. What stays is what the call was
\* asked, what it returned, whether it queried the provider, with which
\* payload and whether the executor threw, and the largest budget that was
\* configured while it ran.
return(call, ret) ==
    [IdleCall EXCEPT !.pc = "done", !.query = call.query, !.useCache = call.useCache,
                     !.ret = ret, !.queried = call.queried, !.raw = call.raw,
                     !.budgetMax = call.budgetMax, !.threw = call.threw]

\* An error leaves the call: the promise of performSearchRequest rejects.
reject(call) ==
    [IdleCall EXCEPT !.pc = "rejected", !.query = call.query,
                     !.useCache = call.useCache, !.queried = call.queried]

budgeterIdle == [pc |-> "idle", textBits |-> <<>>, text |-> <<>>]
\* attempted and settled are the page fetches issued so far and whether each
\* ended in a page ("ok") or not ("failed"); failure is how the last failed
\* one ended.
visitorIdle ==
    [pc |-> "idle", caller |-> "", links |-> <<>>, maxCount |-> 0, i |-> 0,
     results |-> <<>>, attempted |-> <<>>, settled |-> <<>>, failure |-> ""]
filterIdle == [pc |-> "idle", link |-> <<>>, result |-> FALSE]
executorIdle ==
    [pc |-> "idle", includeImages |-> FALSE, webResponse |-> NoRequest,
     imageResponse |-> NoRequest, payload |-> EmptyPayload, threw |-> FALSE,
     first |-> ""]

\* The arguments the host hands to a tool action: none, or an object whose
\* query is missing (the empty sequence) or present.
NoArgs == [present |-> FALSE, query |-> <<>>]
NoInvocation == [made |-> FALSE, args |-> NoArgs, error |-> ""]

\* The extension is disabled, no tool is registered, the Serper key is set and
\* nothing runs the executor.
AsideInit ==
    /\ executor = executorIdle
    /\ tools = {}
    /\ secret_state = [api_key_serper |-> TRUE]
    /\ invocation = NoInvocation

-----------------------------------------------------------------------------
(* performSearchRequest (src/index.js 294-385), one action per resumption. *)

freshResultWithDuplicates(payload) ==
    [text |-> assembleText(payload.textBits, extension_settings.budget),
     links |-> payload.links,
     images |-> payload.images]

\* Lines 328-362: deduplicate, read the budget, assemble the text.
freshResult(payload) ==
    [text |-> assembleText(payload.textBits, extension_settings.budget),
     links |-> onlyUnique(payload.links),
     images |-> onlyUnique(payload.images)]

producedNothing(result) ==
    result.text = <<>> /\ result.links = <<>> /\ result.images = <<>>

\* Line 364: the search produced no text.
producedNoText(result) == result.text = <<>>

caughtInSearchWebOnly(webResponse, imageResponse) ==
    webResponse.status = "fulfilled" /\ webResponse.ok /\ ~webResponse.parses

\* Lines 321-326: the try block holds the awaited doSerperQuery, and the catch
\* takes whatever it throws.
caughtInSearch(webResponse, imageResponse) ==
    doSerperQueryThrows(webResponse, imageResponse)

requestsSentBoth(requests, includeImages) ==
    [web |-> requests.web + 1, image |-> requests.image + 1]

\* Lines 203-215: one fetch for the web search and, with image inclusion, one
\* for the image search.
requestsSent(requests, includeImages) ==
    [web |-> requests.web + 1,
     image |-> requests.image + (IF includeImages THEN 1 ELSE 0)]

\* Entering doSerperQuery (line 322): include_images is read (line 200) and the
\* requests are sent.
enterQuery(call) ==
    [call EXCEPT !.pc = "query", !.includeImages = extension_settings.include_images,
                 !.requests = requestsSent(call.requests,
                                           extension_settings.include_images)]

StartAlwaysCached(c, query, useCache) ==
    /\ ~InFlight(c)
    /\ calls' = [calls EXCEPT ![c] =
           [IdleCall EXCEPT !.query = query, !.useCache = useCache,
                            !.budgetMax = extension_settings.budget,
                            !.pc = "getItem",
                            !.cacheLifetime = extension_settings.cacheLifetime]]
    /\ UNCHANGED <<extension_settings, storage, now, budgeter, visitor, filter, aside>>

\* Lines 294-301: the call runs up to its first await.
Start(c, query, useCache) ==
    /\ ~InFlight(c)
    /\ LET call == [IdleCall EXCEPT !.query = query, !.useCache = useCache,
                                    !.budgetMax = extension_settings.budget]
       IN calls' = [calls EXCEPT ![c] =
              IF useCache
              THEN [call EXCEPT !.pc = "getItem",
                                !.cacheLifetime = extension_settings.cacheLifetime]
              ELSE enterQuery(call)]
    /\ UNCHANGED <<extension_settings, storage, now, budgeter, visitor, filter, aside>>

GetItemRefreshing(c) ==
    /\ calls[c].pc = "getItem"
    /\ LET call == calls[c]
           key == cacheKey(call.query)
           cachedResult == storage[key]
           hit == cachedResult # NoEntry
                      /\ ~isExpired(cachedResult, call.cacheLifetime, now)
       IN /\ calls' = [calls EXCEPT ![c] =
                 IF cachedResult = NoEntry THEN enterQuery(call)
                 ELSE IF ~hit THEN [call EXCEPT !.pc = "removeItem"]
                 ELSE return(call, resultOf(cachedResult))]
          /\ storage' = IF hit THEN [storage EXCEPT ![key].timestamp = now]
                        ELSE storage
    /\ UNCHANGED <<extension_settings, now, prev, budgeter, visitor, filter, aside,
                   invocation>>

\* Lines 301-318: getItem resolves; a valid entry is returned, an expired one
\* is to be removed, and without an entry the provider is queried.
GetItem(c) ==
    /\ calls[c].pc = "getItem"
    /\ LET call == calls[c]
           cachedResult == storage[cacheKey(call.query)]
       IN calls' = [calls EXCEPT ![c] =
              IF cachedResult = NoEntry THEN enterQuery(call)
              ELSE IF isExpired(cachedResult, call.cacheLifetime, now)
              THEN [call EXCEPT !.pc = "removeItem"]
              ELSE return(call, resultOf(cachedResult))]
    /\ UNCHANGED <<extension_settings, storage, now, prev, budgeter, visitor, filter, aside, invocation>>

\* Line 308: removeItem resolves.
RemoveItem(c) ==
    /\ calls[c].pc = "removeItem"
    /\ storage' = [storage EXCEPT ![cacheKey(calls[c].query)] = NoEntry]
    /\ calls' = [calls EXCEPT ![c] = enterQuery(calls[c])]
    /\ UNCHANGED <<extension_settings, now, prev, budgeter, visitor, filter, aside, invocation>>

\* Lines 320-382: the requests settle; a throw of doSerperQuery leaves the
\* empty payload. Without text the empty result is returned; otherwise the
\* entry is built (timestamp: Date.now()) and, with useCache, handed to setItem.
Query(c, webResponse, imageResponse) ==
    /\ calls[c].pc = "query"
    /\ LET call == calls[c]
           threw == doSerperQueryThrows(webResponse, imageResponse)
           searchResult ==
               IF threw THEN EmptyPayload
               ELSE doSerperQuery(webResponse, imageResponse, call.includeImages)
           result == freshResult(searchResult)
           queried == [call EXCEPT !.queried = call.queried + 1, !.raw = searchResult,
                                   !.threw = threw]
       IN calls' = [calls EXCEPT ![c] =
              IF threw /\ ~caughtInSearch(webResponse, imageResponse)
              THEN reject(queried)
              ELSE IF producedNoText(result) THEN return(queried, EmptyResult)
              ELSE IF call.useCache
              THEN [queried EXCEPT
                       !.pc = "setItem",
                       !.entry = [text |-> result.text, links |-> result.links,
                                  images |-> result.images, timestamp |-> now]]
              ELSE return(queried, result)]
    /\ UNCHANGED <<extension_settings, storage, now, prev, budgeter, visitor, filter, aside, invocation>>

\* Lines 376-384: setItem resolves and the result is returned.
SetItem(c) ==
    /\ calls[c].pc = "setItem"
    /\ storage' = [storage EXCEPT ![cacheKey(calls[c].query)] = calls[c].entry]
    /\ calls' = [calls EXCEPT ![c] = return(calls[c], resultOf(calls[c].entry))]
    /\ UNCHANGED <<extension_settings, now, prev, budgeter, visitor, filter, aside, invocation>>

\* A call of the WebSearch tool or of /websearch (useCache: true), of the
\* scraper or of the test function (useCache: false), one call at a time.
Search == \E q \in Queries, useCache \in BOOLEAN :
    NoCallInFlight /\ Start(1, q, useCache) /\ UNCHANGED <<prev, invocation>>

CacheRead == \E c \in Callers : GetItem(c)
CacheRemove == \E c \in Callers : RemoveItem(c)
CacheWrite == \E c \in Callers : SetItem(c)

ProviderAnswers == \E c \in Callers, w \in WebResponses :
    \E i \in (IF calls[c].includeImages THEN ImageResponses ELSE {NoRequest}) :
        Query(c, w, i)

\* Date.now() moves on.
Tick ==
    /\ now < MaxTicks * TickMs
    /\ now' = now + TickMs
    /\ UNCHANGED <<extension_settings, storage, calls, prev, budgeter, visitor, filter, aside, invocation>>

\* Lines 670-673: the budget input.
SetBudget == \E b \in SearchBudgets :
    /\ b # extension_settings.budget
    /\ extension_settings' = [extension_settings EXCEPT !.budget = b]
    /\ calls' = [c \in Callers |->
           IF InFlight(c) THEN [calls[c] EXCEPT !.budgetMax = Max(@, b)] ELSE calls[c]]
    /\ UNCHANGED <<storage, now, prev, budgeter, visitor, filter, aside, invocation>>

\* Lines 677-682: the cache lifetime input.
SetCacheLifetime == \E l \in Lifetimes :
    /\ l # extension_settings.cacheLifetime
    /\ extension_settings' = [extension_settings EXCEPT !.cacheLifetime = l]
    /\ UNCHANGED <<storage, now, calls, prev, budgeter, visitor, filter, aside, invocation>>

\* Lines 731-736: the include-images checkbox.
SetIncludeImages ==
    /\ extension_settings' =
           [extension_settings EXCEPT !.include_images = ~extension_settings.include_images]
    /\ UNCHANGED <<storage, now, calls, prev, budgeter, visitor, filter, aside, invocation>>

\* Lines 744-748: the clearWebSearchCache debug function.
ClearCache ==
    /\ \E k \in CacheKeys : storage[k] # NoEntry
    /\ storage' = [k \in CacheKeys |-> NoEntry]
    /\ UNCHANGED <<extension_settings, now, calls, prev, budgeter, visitor, filter, aside, invocation>>

Init ==
    /\ extension_settings \in
           {[ModelSettings EXCEPT !.budget = b, !.cacheLifetime = l] :
                b \in SearchBudgets, l \in Lifetimes}
    /\ storage = [k \in CacheKeys |-> NoEntry]
    /\ now = 0
    /\ calls = [c \in Callers |-> IdleCall]
    /\ prev = IdleCall
    /\ budgeter = budgeterIdle
    /\ visitor = visitorIdle
    /\ filter = filterIdle
    /\ AsideInit

Next ==
    \/ Search
    \/ CacheRead
    \/ CacheRemove
    \/ ProviderAnswers
    \/ CacheWrite
    \/ Tick
    \/ SetBudget
    \/ SetCacheLifetime
    \/ SetIncludeImages
    \/ ClearCache

Spec == Init /\ [][Next]_vars

-----------------------------------------------------------------------------
(* The searches on a cache store that can fail. *)

\* Lines 301, 308 and 376: the awaited getItem, removeItem or setItem rejects.
\* None of them is inside a try block, so performSearchRequest rejects.
StoreRejects == \E c \in Callers :
    /\ calls[c].pc \in {"getItem", "removeItem", "setItem"}
    /\ calls' = [calls EXCEPT ![c] = reject(calls[c])]
    /\ UNCHANGED <<extension_settings, storage, now, prev, budgeter, visitor, filter,
                   aside, invocation>>

NextStoreFails ==
    \/ Next
    \/ StoreRejects

SpecStoreFails == Init /\ [][NextStoreFails]_vars

-----------------------------------------------------------------------------
(* Concurrent searches: several calls in flight, for queries that differ in *)
(* case or whitespace, on a cache that holds entries of an earlier session. *)

\* Two calls, each of which may be in flight while the other is.
ConcCallers == {1, 2}
KeyQueries == {"q", "Q", "q "}
KeySpace == {cacheKey(q) : q \in KeyQueries}

\* An entry that localforage kept from an earlier session.
StoredEntry ==
    [text |-> <<"a", ".", NL>>, links |-> <<LinkE>>, images |-> <<>>, timestamp |-> 0]

ConcWebResponses == {Rejected, Ok(DataOrganic), Ok(DataAnswer)}

InitConcurrent ==
    /\ extension_settings \in
           {[ModelSettings EXCEPT !.cacheLifetime = l] : l \in Lifetimes}
    /\ storage \in [KeySpace -> {NoEntry, StoredEntry}]
    /\ now = 0
    /\ calls = [c \in ConcCallers |-> IdleCall]
    /\ prev = IdleCall
    /\ budgeter = budgeterIdle
    /\ visitor = visitorIdle
    /\ filter = filterIdle
    /\ AsideInit

\* A caller that has not called yet calls performSearchRequest, whatever the
\* other calls are doing.
ConcSearch == \E c \in ConcCallers, q \in KeyQueries, useCache \in BOOLEAN :
    /\ calls[c].pc = "idle"
    /\ Start(c, q, useCache)
    /\ UNCHANGED <<prev, invocation>>

ConcRead == \E c \in ConcCallers : GetItem(c)
ConcRemove == \E c \in ConcCallers : RemoveItem(c)
ConcWrite == \E c \in ConcCallers : SetItem(c)
ConcAnswers == \E c \in ConcCallers, w \in ConcWebResponses : Query(c, w, NoRequest)

NextConcurrent ==
    \/ ConcSearch
    \/ ConcRead
    \/ ConcRemove
    \/ ConcAnswers
    \/ ConcWrite
    \/ Tick

SpecConcurrent == InitConcurrent /\ [][NextConcurrent]_vars

-----------------------------------------------------------------------------
(* Two successive cached searches of one query, the cache left to them. *)

\* The first performSearchRequest(q, {useCache: true}).
FirstSearch == \E q \in Queries :
    /\ calls[1].pc = "idle"
    /\ Start(1, q, TRUE)
    /\ UNCHANGED <<prev, invocation>>

\* The next call for the same query, once the first has returned.
SecondSearch ==
    /\ calls[1].pc = "done"
    /\ prev.pc = "idle"
    /\ Start(1, calls[1].query, TRUE)
    /\ prev' = calls[1]
    /\ UNCHANGED invocation

\* The run ends when the second call has returned.
TwiceDone == prev.pc = "done" /\ calls[1].pc = "done"

NextTwice ==
    \/ FirstSearch
    \/ SecondSearch
    \/ CacheRead
    \/ CacheRemove
    \/ ProviderAnswers
    \/ CacheWrite
    \/ ~TwiceDone /\ Tick
    \/ ~TwiceDone /\ SetBudget
    \/ ~TwiceDone /\ SetCacheLifetime
    \/ ~TwiceDone /\ SetIncludeImages

SpecTwice == Init /\ [][NextTwice]_vars

-----------------------------------------------------------------------------
(* The text budgeter on its own: the assembly loop on any bits and budget. *)

InitBudget ==
    /\ extension_settings \in {[ModelSettings EXCEPT !.budget = b] : b \in Budgets}
    /\ budgeter \in {[pc |-> "ready", textBits |-> bits, text |-> <<>>] :
                        bits \in SeqsUpTo(BitUniverse, MaxBits)}
    /\ storage = [k \in CacheKeys |-> NoEntry]
    /\ now = 0
    /\ calls = [c \in Callers |-> IdleCall]
    /\ prev = IdleCall
    /\ visitor = visitorIdle
    /\ filter = filterIdle
    /\ AsideInit

\* Lines 331-362 on the bits of a payload.
Assemble ==
    /\ budgeter.pc = "ready"
    /\ budgeter' = [budgeter EXCEPT
           !.pc = "done",
           !.text = assembleText(budgeter.textBits, extension_settings.budget)]
    /\ UNCHANGED <<extension_settings, storage, now, calls, prev, visitor, filter, aside, invocation>>

NextBudget == Assemble

SpecBudget == InitBudget /\ [][NextBudget]_vars

-----------------------------------------------------------------------------
(* The text assembly of the earlier performSearchRequest                    *)
(* (src/unnamed/part_000 625-647).                                          *)

\* Lines 632-640 of part_000: the ellipsis trimming, as in trimSnippet.
trimSnippetPart000(i) ==
    LET i1 == IF endsWith(i, Ellipsis)
              THEN trim(trimToEndSentence(Slice(i, 0, Len(i) - 3)))
              ELSE i
    IN IF startsWith(i1, Ellipsis)
       THEN trim(trimToStartSentence(Substring(i1, 3)))
       ELSE i1

\* Lines 629-647 of part_000: every bit that is not empty is appended whole,
\* with its newline, and the loop ends once the text is longer than the
\* budget.
RECURSIVE assembleFromPart000(_, _, _, _)
assembleFromPart000(bits, k, text, budgetChars) ==
    IF k > Len(bits) THEN text
    ELSE LET appended == IF bits[k] = <<>> THEN text
                         ELSE text \o trimSnippetPart000(bits[k]) \o <<NL>>
         IN IF Len(appended) > budgetChars THEN appended
            ELSE assembleFromPart000(bits, k + 1, appended, budgetChars)

assembleTextPart000(textBits, budgetChars) ==
    assembleFromPart000(onlyUnique(textBits), 1, <<>>, budgetChars)

AssemblePart000 ==
    /\ budgeter.pc = "ready"
    /\ budgeter' = [budgeter EXCEPT
           !.pc = "done",
           !.text = assembleTextPart000(budgeter.textBits, extension_settings.budget)]
    /\ UNCHANGED <<extension_settings, storage, now, calls, prev, visitor, filter, aside, invocation>>

NextBudgetPart000 == AssemblePart000

SpecBudgetPart000 == InitBudget /\ [][NextBudgetPart000]_vars

-----------------------------------------------------------------------------
(* The link filter on its own. *)

InitFilter ==
    /\ extension_settings \in
           {[ModelSettings EXCEPT !.visit_blacklist = bl] : bl \in Blacklists}
    /\ filter \in {[pc |-> "ready", link |-> l, result |-> FALSE] : l \in LinkPool}
    /\ storage = [k \in CacheKeys |-> NoEntry]
    /\ now = 0
    /\ calls = [c \in Callers |-> IdleCall]
    /\ prev = IdleCall
    /\ budgeter = budgeterIdle
    /\ visitor = visitorIdle
    /\ AsideInit

CheckLink ==
    /\ filter.pc = "ready"
    /\ filter' = [filter EXCEPT !.pc = "done", !.result = isAllowedUrl(filter.link)]
    /\ UNCHANGED <<extension_settings, storage, now, calls, prev, budgeter, visitor, aside, invocation>>

NextFilter == CheckLink

SpecFilter == InitFilter /\ [][NextFilter]_vars

-----------------------------------------------------------------------------
(* The function tools (src/index.js 519-599) on a host that supports them. *)

ToolNames == {"WebSearch", "VisitLinks"}

registerOnly(enabled, registered) ==
    IF enabled THEN registered \cup ToolNames ELSE registered

\* registerFunctionTools: disabled, both tools are unregistered (lines
\* 529-533); enabled, both are registered (lines 562-595), which replaces a
\* registration of the same name.
registerFunctionTools(enabled, registered) ==
    IF ~enabled THEN registered \ ToolNames ELSE registered \cup ToolNames

\* Lines 61-68.
isSearchAvailable == secret_state.api_key_serper

\* What the host can hand to the WebSearch action: nothing, an object without
\* query, one with the empty query, one with a query.
ToolArgs ==
    {NoArgs} \cup {[present |-> TRUE, query |-> q] :
                      q \in {<<>>, <<"">>} \cup {<<x>> : x \in Queries}}

toolErrorNoKeyCheck(args, available) ==
    IF ~args.present THEN "No arguments provided"
    ELSE IF args.query \in {<<>>, <<"">>} THEN "No query provided"
    ELSE ""

\* Lines 571-573: the error the action throws, or none (the empty string).
toolError(args, available) ==
    IF ~args.present THEN "No arguments provided"
    ELSE IF args.query \in {<<>>, <<"">>} THEN "No query provided"
    ELSE IF ~available THEN "Search is not available"
    ELSE ""

\* Lines 570-578: the host invokes the registered WebSearch action, which
\* throws or runs performSearchRequest(args.query, {useCache: true}) up to its
\* first await.
WebSearchTool == \E args \in ToolArgs :
    /\ "WebSearch" \in tools
    /\ NoCallInFlight
    /\ LET error == toolError(args, isSearchAvailable)
       IN /\ invocation' = [made |-> TRUE, args |-> args, error |-> error]
          /\ IF error = ""
             THEN Start(1, args.query[1], TRUE)
             ELSE UNCHANGED <<extension_settings, storage, now, calls, budgeter,
                              visitor, filter, aside>>
    /\ prev' = prev

\* Lines 659-664: the enabled checkbox changes and the tools are registered
\* anew.
ToggleEnabled ==
    /\ extension_settings' =
           [extension_settings EXCEPT !.enabled = ~extension_settings.enabled]
    /\ tools' = registerFunctionTools(~extension_settings.enabled, tools)
    /\ UNCHANGED <<storage, now, calls, prev, budgeter, visitor, filter, executor,
                   secret_state, invocation>>

\* Lines 605-631: the Serper key is saved or removed.
SerperKeyChanges ==
    /\ secret_state' = [secret_state EXCEPT !.api_key_serper = ~@]
    /\ UNCHANGED <<extension_settings, storage, now, calls, prev, budgeter, visitor,
                   filter, executor, tools, invocation>>

\* The settings are loaded, enabled or not, and registerFunctionTools has run
\* once (line 738); the key is set or not.
InitTools ==
    /\ extension_settings \in
           {[ModelSettings EXCEPT !.enabled = e, !.cacheLifetime = l] :
                e \in BOOLEAN, l \in Lifetimes}
    /\ tools = registerFunctionTools(extension_settings.enabled, {})
    /\ secret_state \in {[api_key_serper |-> k] : k \in BOOLEAN}
    /\ invocation = NoInvocation
    /\ executor = executorIdle
    /\ storage = [k \in CacheKeys |-> NoEntry]
    /\ now = 0
    /\ calls = [c \in Callers |-> IdleCall]
    /\ prev = IdleCall
    /\ budgeter = budgeterIdle
    /\ visitor = visitorIdle
    /\ filter = filterIdle

NextTools ==
    \/ ToggleEnabled
    \/ SerperKeyChanges
    \/ WebSearchTool
    \/ CacheRead
    \/ CacheRemove
    \/ ProviderAnswers
    \/ CacheWrite
    \/ Tick

SpecTools == InitTools /\ [][NextTools]_vars

-----------------------------------------------------------------------------
(* The query executor on its own. *)

\* The answers of the runs of the executor alone: those of the searches, a
\* web body that holds only images, and image bodies with other fields.
ExecWebResponses == WebResponses \cup {Ok(DataImages), Ok(DataFull)}
ExecImageResponses == ImageResponses \cup {Ok(DataOrganic), Ok(DataAnswer)}

InitQuery ==
    /\ extension_settings \in
           {[ModelSettings EXCEPT !.include_images = b] : b \in BOOLEAN}
    /\ storage = [k \in CacheKeys |-> NoEntry]
    /\ now = 0
    /\ calls = [c \in Callers |-> IdleCall]
    /\ prev = IdleCall
    /\ budgeter = budgeterIdle
    /\ visitor = visitorIdle
    /\ filter = filterIdle
    /\ AsideInit

\* Lines 199-216: include_images is read and the requests are sent, the image
\* request only with image inclusion; without it the second promise is the
\* resolved null.
SendRequests ==
    /\ executor.pc = "idle"
    /\ executor' = [executor EXCEPT
           !.pc = "sent",
           !.includeImages = extension_settings.include_images,
           !.webResponse = Pending,
           !.imageResponse =
               IF extension_settings.include_images THEN Pending ELSE NoRequest]
    /\ UNCHANGED <<extension_settings, storage, now, calls, prev, budgeter, visitor,
                   filter, tools, secret_state, invocation>>

\* The web request settles, before or after the image request; first
\* records which of the two settled first.
WebSettles ==
    \E w \in ExecWebResponses :
        /\ executor.pc = "sent"
        /\ executor.webResponse = Pending
        /\ executor' = [executor EXCEPT
               !.webResponse = w,
               !.first = IF executor.first = "" THEN "web" ELSE executor.first]
        /\ UNCHANGED <<extension_settings, storage, now, calls, prev, budgeter,
                       visitor, filter, tools, secret_state, invocation>>

\* The image request settles.
ImageSettles ==
    \E i \in ExecImageResponses :
        /\ executor.pc = "sent"
        /\ executor.imageResponse = Pending
        /\ executor' = [executor EXCEPT
               !.imageResponse = i,
               !.first = IF executor.first = "" THEN "image" ELSE executor.first]
        /\ UNCHANGED <<extension_settings, storage, now, calls, prev, budgeter,
                       visitor, filter, tools, secret_state, invocation>>

joinedOnFirst(e) == e.webResponse # Pending \/ e.imageResponse # Pending

\* Lines 217-220: Promise.allSettled resolves when both promises have settled.
joined(e) == e.webResponse # Pending /\ e.imageResponse # Pending

\* Lines 217-284: after the join the bodies are parsed and the payload is
\* built, unless a body does not parse and doSerperQuery rejects.
ParseBodies ==
    /\ executor.pc = "sent"
    /\ joined(executor)
    /\ executor' =
           IF doSerperQueryThrows(executor.webResponse, executor.imageResponse)
           THEN [executor EXCEPT !.pc = "done", !.threw = TRUE]
           ELSE [executor EXCEPT
                    !.pc = "done",
                    !.payload = doSerperQuery(executor.webResponse,
                                              executor.imageResponse,
                                              executor.includeImages)]
    /\ UNCHANGED <<extension_settings, storage, now, calls, prev, budgeter, visitor,
                   filter, tools, secret_state, invocation>>

NextQuery ==
    \/ SendRequests
    \/ WebSettles
    \/ ImageSettles
    \/ ParseBodies

SpecQuery == InitQuery /\ [][NextQuery]_vars

-----------------------------------------------------------------------------
(* The earlier doSerperQuery (src/unnamed/part_000 511-586): two sub-tasks  *)
(* that push into the arrays textBits, links and images they share.         *)

\* Lines 512-514 and 585 of part_000: the arrays are empty, searchWeb sends
\* its request and searchImages sends its own unless image inclusion is off
\* (line 563).
SendRequestsPart000 ==
    /\ executor.pc = "idle"
    /\ executor' = [executor EXCEPT
           !.pc = "sent",
           !.includeImages = extension_settings.include_images,
           !.webResponse = Pending,
           !.imageResponse =
               IF extension_settings.include_images THEN Pending ELSE NoRequest]
    /\ UNCHANGED <<extension_settings, storage, now, calls, prev, budgeter, visitor,
                   filter, tools, secret_state, invocation>>

\* Lines 517-560 of part_000: the web response arrives and searchWeb pushes
\* what it holds; a rejected fetch, a status that is not ok or a body that
\* does not parse ends the sub-task with nothing pushed.
searchWeb(payload, w, includeImages) ==
    IF w.status = "fulfilled" /\ w.ok /\ w.parses
    THEN [textBits |-> payload.textBits \o webTextBits(w.data),
          links |-> payload.links \o webLinks(w.data),
          images |-> payload.images \o webImages(w.data, includeImages)]
    ELSE payload

\* Lines 567-581 of part_000: the image response arrives and searchImages
\* pushes its images.
searchImages(payload, i) ==
    IF i.status = "fulfilled" /\ i.ok /\ i.parses
    THEN [payload EXCEPT !.images = payload.images \o i.data.images]
    ELSE payload

WebArrivesPart000 ==
    \E w \in ExecWebResponses :
        /\ executor.pc = "sent"
        /\ executor.webResponse = Pending
        /\ executor' = [executor EXCEPT
               !.webResponse = w,
               !.payload = searchWeb(executor.payload, w,
                                     extension_settings.include_images),
               !.first = IF executor.first = "" THEN "web" ELSE executor.first]
        /\ UNCHANGED <<extension_settings, storage, now, calls, prev, budgeter,
                       visitor, filter, tools, secret_state, invocation>>

ImageArrivesPart000 ==
    \E i \in ExecImageResponses :
        /\ executor.pc = "sent"
        /\ executor.imageResponse = Pending
        /\ executor' = [executor EXCEPT
               !.imageResponse = i,
               !.payload = searchImages(executor.payload, i),
               !.first = IF executor.first = "" THEN "image" ELSE executor.first]
        /\ UNCHANGED <<extension_settings, storage, now, calls, prev, budgeter,
                       visitor, filter, tools, secret_state, invocation>>

\* Lines 584-585 of part_000: both sub-tasks have ended and the arrays are
\* returned as they are.
JoinPart000 ==
    /\ executor.pc = "sent"
    /\ joined(executor)
    /\ executor' = [executor EXCEPT !.pc = "done"]
    /\ UNCHANGED <<extension_settings, storage, now, calls, prev, budgeter, visitor,
                   filter, tools, secret_state, invocation>>

NextQueryPart000 ==
    \/ SendRequestsPart000
    \/ WebArrivesPart000
    \/ ImageArrivesPart000
    \/ JoinPart000

SpecQueryPart000 == InitQuery /\ [][NextQueryPart000]_vars

-----------------------------------------------------------------------------
(* The page visitor (src/index.js 151-191). *)

\* What extractTextFromHTML finds in the <p> elements of a page.
PageTexts == {<<>>, <<"p">>}

\* How a page fetch ends: fetch rejects, the status is not ok, the text
\* extraction throws, or a page.
Page(text) == [kind |-> "ok", text |-> text]
FetchOutcomes == {[kind |-> "rejected", text |-> <<>>], [kind |-> "notOk", text |-> <<>>],
                  [kind |-> "extractThrows", text |-> <<>>]}
                 \cup {Page(t) : t \in PageTexts}

\* Lines 153-168: fetch, blob() and extractTextFromHTML are the statements of
\* visitLink that can throw.
throwsInVisit(outcome) == outcome.kind \in {"rejected", "extractThrows"}

caughtInVisitFetchOnly(outcome) == outcome.kind = "rejected"

\* Lines 152-173: the try block holds the whole body, and the catch logs.
caughtInVisit(outcome) == throwsInVisit(outcome)

\* visitLink rejects when something it throws is not caught.
visitLinkRaises(outcome) == throwsInVisit(outcome) /\ ~caughtInVisit(outcome)

\* visitLink: nothing (the empty sequence) unless the fetch succeeded.
visitLink(link, outcome) ==
    IF outcome.kind = "ok" THEN <<[link |-> link, text |-> outcome.text]>> ELSE <<>>

capPassedByOne(v) == Len(v.results) > v.maxCount

loopFromUnfiltered(v, i) ==
    IF i > Len(v.links) \/ Len(v.results) >= v.maxCount
    THEN [v EXCEPT !.pc = "done", !.i = i]
    ELSE [v EXCEPT !.pc = "fetching", !.i = i,
                   !.attempted = Append(v.attempted, v.links[i])]

\* Line 185: the loop ends once maxCount results are collected.
capReached(v) == Len(v.results) >= v.maxCount

\* Lines 184-187: the loop runs on from link i until it awaits a fetch or ends.
RECURSIVE loopFrom(_, _)
loopFrom(v, i) ==
    IF i > Len(v.links) \/ capReached(v) THEN [v EXCEPT !.pc = "done", !.i = i]
    ELSE IF ~isAllowedUrl(v.links[i]) THEN loopFrom(v, i + 1)
    ELSE [v EXCEPT !.pc = "fetching", !.i = i,
                   !.attempted = Append(v.attempted, v.links[i])]

collectVisitResults(v, caller, maxCount) ==
    loopFrom([v EXCEPT !.caller = caller, !.maxCount = maxCount,
                       !.results = <<>>, !.attempted = <<>>, !.settled = <<>>,
                       !.failure = ""], 1)

\* Lines 588-594: the VisitLinks tool visits up to visit_count links.
VisitLinksTool ==
    /\ visitor.pc = "ready"
    /\ visitor' = collectVisitResults(visitor, "VisitLinks",
                                      extension_settings.visit_count)
    /\ UNCHANGED <<extension_settings, storage, now, calls, prev, budgeter, filter, aside, invocation>>

\* Lines 474-477: the scraper visits up to the count its dialog was given.
ScrapeVisit == \E maxResults \in VisitCounts :
    /\ visitor.pc = "ready"
    /\ visitor' = collectVisitResults(visitor, "scrape", maxResults)
    /\ UNCHANGED <<extension_settings, storage, now, calls, prev, budgeter, filter, aside, invocation>>

\* Lines 187-188: the awaited visitLink settles and the loop runs on; the
\* loop has no try of its own, so a visitLink that rejects ends it.
FetchSettles == \E outcome \in FetchOutcomes :
    /\ visitor.pc = "fetching"
    /\ LET result == visitLink(visitor.links[visitor.i], outcome)
           settled ==
               IF outcome.kind = "ok"
               THEN [visitor EXCEPT !.settled = Append(@, "ok")]
               ELSE [visitor EXCEPT !.settled = Append(@, "failed"),
                                    !.failure = outcome.kind]
       IN visitor' = IF visitLinkRaises(outcome)
                     THEN [settled EXCEPT !.pc = "rejected"]
                     ELSE loopFrom([settled EXCEPT !.results = @ \o result],
                                   visitor.i + 1)
    /\ UNCHANGED <<extension_settings, storage, now, calls, prev, budgeter, filter, aside, invocation>>

\* The links handed to the visitor: LinkE is refused under the third
\* blacklist, LinkAB under the second, LinkBad always.
VisitLinkPool == {LinkE, LinkAB, LinkBad}
VisitBlacklists == {<<>>, <<EntryBC>>, <<<<" ", "b", ".", "c">>, <<"e", ".", "f">>>>}

InitVisit ==
    /\ extension_settings \in
           {[ModelSettings EXCEPT !.visit_blacklist = bl, !.visit_count = n] :
                bl \in VisitBlacklists, n \in VisitCounts}
    /\ visitor \in {[visitorIdle EXCEPT !.pc = "ready", !.links = ls] :
                       ls \in SeqsUpTo(VisitLinkPool, MaxLinks)}
    /\ storage = [k \in CacheKeys |-> NoEntry]
    /\ now = 0
    /\ calls = [c \in Callers |-> IdleCall]
    /\ prev = IdleCall
    /\ budgeter = budgeterIdle
    /\ filter = filterIdle
    /\ AsideInit

NextVisit ==
    \/ VisitLinksTool
    \/ ScrapeVisit
    \/ FetchSettles

SpecVisit == InitVisit /\ [][NextVisit]_vars

-----------------------------------------------------------------------------
(* The page visitor while the blacklist is edited. *)

\* What the blacklist handler (lines 700-708) can leave in the settings:
\* trimmed entries, none of them empty.
HandlerBlacklists == {<<>>, <<EntryBC>>, <<<<"e", ".", "f">>>>}

\* Lines 700-708: the blacklist textarea is edited.
SetVisitBlacklist == \E bl \in HandlerBlacklists :
    /\ bl # extension_settings.visit_blacklist
    /\ extension_settings' = [extension_settings EXCEPT !.visit_blacklist = bl]
    /\ UNCHANGED <<storage, now, calls, prev, budgeter, visitor, filter, aside, invocation>>

NextVisitEdit ==
    \/ VisitLinksTool
    \/ FetchSettles
    \/ SetVisitBlacklist

-----------------------------------------------------------------------------
(* The earlier visitLinks (src/unnamed/part_000 130-182): the page fetches  *)
(* are sent together and awaited together.                                  *)

\* A page fetch that was sent and has not settled.
PendingVisit == [kind |-> "pending", text |-> <<>>]

\* Lines 76-78 of part_000.
ensureEndNewline(text) == IF endsWith(text, <<NL>>) THEN text ELSE text \o <<NL>>

\* substituteParamsExtended on the default visit_block_header and
\* visit_file_header (lines 59-60 of part_000).
blockHeader(link, text) ==
    <<"-", "-", "-", NL, "Information from ">> \o link \o <<NL, NL>> \o text \o <<NL, NL>>
fileHeader(query) == <<"Web search results for ", query, NL, NL>>

firstOfUnfiltered(links, visitCount) ==
    SelectSeq(SubSeq(links, 1, Min(visitCount, Len(links))), isAllowedUrl)

\* Lines 136 and 146-147 of part_000: the links isAllowedUrl accepts, and of
\* them the first Math.min(visitCount, links.length).
firstAllowed(links, visitCount) ==
    LET allowed == SelectSeq(links, isAllowedUrl)
    IN SubSeq(allowed, 1, Min(visitCount, Len(allowed)))

\* Lines 421-445 of part_000: visitLink resolves with the link and the text
\* of the page; after an error or a status that is not ok, with undefined.
visitLinkPart000Gives(outcome) == outcome.kind = "ok"

\* Lines 153-168 of part_000: the blocks of the results from position k on,
\* in the order of the promises.
RECURSIVE linkResultFrom(_, _)
linkResultFrom(visitResult, k) ==
    IF k > Len(visitResult) THEN <<>>
    ELSE (IF visitLinkPart000Gives(visitResult[k].outcome)
             /\ visitResult[k].outcome.text # <<>>
          THEN ensureEndNewline(blockHeader(visitResult[k].link,
                                            visitResult[k].outcome.text))
          ELSE <<>>)
         \o linkResultFrom(visitResult, k + 1)

fanOutIdle ==
    [pc |-> "ready", links |-> <<>>, visitPromises |-> <<>>, ret |-> <<>>,
     outOfOrder |-> FALSE]

InitVisitPart000 ==
    /\ extension_settings \in
           {[ModelSettings EXCEPT !.visit_blacklist = bl, !.visit_count = n] :
                bl \in VisitBlacklists, n \in VisitCounts}
    /\ visitor \in {[fanOutIdle EXCEPT !.links = ls] :
                       ls \in SeqsUpTo(VisitLinkPool, MaxLinks)}
    /\ storage = [k \in CacheKeys |-> NoEntry]
    /\ now = 0
    /\ calls = [c \in Callers |-> IdleCall]
    /\ prev = IdleCall
    /\ budgeter = budgeterIdle
    /\ filter = filterIdle
    /\ AsideInit

\* Lines 130-151 of part_000: the links are filtered; without an allowed link
\* the empty string is returned, otherwise the fetches are sent, all of them
\* before Promise.allSettled is awaited.
VisitLinksPart000 ==
    /\ visitor.pc = "ready"
    /\ LET allowed == SelectSeq(visitor.links, isAllowedUrl)
           sent == firstAllowed(visitor.links, extension_settings.visit_count)
       IN visitor' =
              IF allowed = <<>> THEN [visitor EXCEPT !.pc = "done"]
              ELSE [visitor EXCEPT
                       !.pc = "awaiting",
                       !.visitPromises =
                           [k \in 1..Len(sent) |->
                               [link |-> sent[k], outcome |-> PendingVisit]]]
    /\ UNCHANGED <<extension_settings, storage, now, calls, prev, budgeter, filter,
                   aside, invocation>>

\* One of the page fetches settles, whichever; outOfOrder records that one
\* settled while an earlier one was pending.
VisitSettlesPart000 ==
    \E k \in 1..Len(visitor.visitPromises), o \in FetchOutcomes :
        /\ visitor.pc = "awaiting"
        /\ visitor.visitPromises[k].outcome = PendingVisit
        /\ visitor' = [visitor EXCEPT
               !.visitPromises[k].outcome = o,
               !.outOfOrder =
                   \/ visitor.outOfOrder
                   \/ \E j \in 1..(k - 1) :
                          visitor.visitPromises[j].outcome = PendingVisit]
        /\ UNCHANGED <<extension_settings, storage, now, calls, prev, budgeter, filter,
                       aside, invocation>>

\* Lines 151-181 of part_000: every fetch has settled; the blocks are built in
\* the order of the promises and returned after the file header, or the
\* empty string when there is no block.
VisitsJoinPart000 ==
    /\ visitor.pc = "awaiting"
    /\ \A k \in 1..Len(visitor.visitPromises) :
           visitor.visitPromises[k].outcome # PendingVisit
    /\ LET linkResult == linkResultFrom(visitor.visitPromises, 1)
       IN visitor' = [visitor EXCEPT
              !.pc = "done",
              !.ret = IF linkResult = <<>> THEN <<>>
                      ELSE ensureEndNewline(fileHeader("q")) \o linkResult]
    /\ UNCHANGED <<extension_settings, storage, now, calls, prev, budgeter, filter,
                   aside, invocation>>

NextVisitPart000 ==
    \/ VisitLinksPart000
    \/ VisitSettlesPart000
    \/ VisitsJoinPart000

SpecVisitPart000 == InitVisitPart000 /\ [][NextVisitPart000]_vars

SpecVisitEdit == InitVisit /\ [][NextVisitEdit]_vars

-----------------------------------------------------------------------------
(* Properties. *)

NoDuplicates(s) == \A i, j \in 1..Len(s) : s[i] = s[j] => i = j

FirstIndex(s, x) == CHOOSE i \in 1..Len(s) : s[i] = x /\ \A j \in 1..(i - 1) : s[j] # x

\* out lists the values of raw, each once, in the order of their first occurrence.
FirstOccurrenceOrder(out, raw) ==
    /\ NoDuplicates(out)
    /\ {out[i] : i \in 1..Len(out)} = {raw[i] : i \in 1..Len(raw)}
    /\ \A i, j \in 1..Len(out) : i < j => FirstIndex(raw, out[i]) < FirstIndex(raw, out[j])

RECURSIVE IsSubsequence(_, _)
IsSubsequence(a, b) ==
    IF a = <<>> THEN TRUE
    ELSE IF b = <<>> THEN FALSE
    ELSE IF Head(a) = Head(b) THEN IsSubsequence(Tail(a), Tail(b))
    ELSE IsSubsequence(a, Tail(b))

\* The second of the two calls leaves its cache read.
SecondRead ==
    /\ prev.pc = "done"
    /\ calls[1].pc = "getItem"
    /\ calls'[1].pc # "getItem"

SecondServedFromCache ==
    /\ calls'[1].pc = "done"
    /\ calls'[1].ret = prev.ret
    /\ prev.queried + calls'[1].queried = 1

\* C1 as claimed: for every query, the second of two successive cached calls
\* made within the TTL of the first returns what the first returned, and the
\* provider is queried once in all. The second call reads the cache less than
\* cacheLifetime after the clock's start, hence after the first call.
C1_TwiceIdenticalOnce ==
    [][SecondRead /\ now < calls[1].cacheLifetime * MsPerSec
           => SecondServedFromCache]_vars

\* C1 amended: if the first call returned text, its entry is in the cache when
\* the second call reads it, holding what the first call returned, and when it
\* is younger than cacheLifetime the second call returns it without a query.
C1_TwiceIdenticalOnceWithText ==
    [][SecondRead /\ prev.ret.text # <<>>
           => LET e == storage[cacheKey(calls[1].query)]
              IN /\ e # NoEntry
                 /\ resultOf(e) = prev.ret
                 /\ now - e.timestamp < calls[1].cacheLifetime * MsPerSec
                        => SecondServedFromCache]_vars

\* The second call has returned the first call's text, links and images
\* without a query of its own.
C1_Witness ==
    /\ TwiceDone
    /\ prev.queried = 1
    /\ calls[1].queried = 0
    /\ calls[1].ret = prev.ret
    /\ calls[1].ret.text # <<>>
    /\ calls[1].ret.links # <<>>

\* C2: the text assembled from any bits is no longer than the budget, the
\* newline after each bit included.
C2_TextWithinBudget ==
    budgeter.pc = "done" => Len(budgeter.text) <= extension_settings.budget

\* A bit was cut to fill the budget to the last character.
C2_Witness ==
    /\ budgeter.pc = "done"
    /\ Len(budgeter.text) = extension_settings.budget
    /\ extension_settings.budget >= 3
    /\ \E i \in 1..Len(budgeter.textBits) :
           Len(budgeter.textBits[i]) + 1 > extension_settings.budget

\* C3 as claimed: the text of every returned result, a cached one included, is
\* no longer than a budget that was configured while the call ran.
C3_ReturnedTextWithinBudget ==
    \A c \in Callers :
        calls[c].pc = "done" => Len(calls[c].ret.text) <= calls[c].budgetMax

\* C4: returned links and images hold no value twice, as do those of every
\* cache entry; on the fresh path they list the provider's links and images
\* in the order of first occurrence.
C4_LinksAndImagesUnique ==
    /\ \A c \in Callers :
           calls[c].pc = "done" =>
               /\ NoDuplicates(calls[c].ret.links)
               /\ NoDuplicates(calls[c].ret.images)
               /\ calls[c].queried = 1 /\ calls[c].ret.text # <<>> =>
                      /\ FirstOccurrenceOrder(calls[c].ret.links, calls[c].raw.links)
                      /\ FirstOccurrenceOrder(calls[c].ret.images, calls[c].raw.images)
    /\ \A k \in CacheKeys :
           NoDuplicates(storage[k].links) /\ NoDuplicates(storage[k].images)

\* A fresh result whose payload repeated a link and an image.
C4_Witness ==
    \E c \in Callers :
        /\ calls[c].pc = "done"
        /\ calls[c].queried = 1
        /\ Len(calls[c].ret.links) >= 2
        /\ Len(calls[c].raw.links) > Len(calls[c].ret.links)
        /\ calls[c].ret.images # <<>>
        /\ Len(calls[c].raw.images) > Len(calls[c].ret.images)

\* C5: a call whose text is empty returns the empty result, whatever links and
\* images the provider sent, and the step that returns it leaves the cache as
\* it was; no entry, stored or about to be, has empty text.
C5_EmptyTextNotCached ==
    /\ [](\A c \in Callers :
              /\ calls[c].pc = "done" /\ calls[c].ret.text = <<>> =>
                     calls[c].ret = EmptyResult
              /\ calls[c].pc = "setItem" => calls[c].entry.text # <<>>)
    /\ [](\A k \in CacheKeys : storage[k] # NoEntry => storage[k].text # <<>>)
    /\ [][\A c \in Callers :
              calls[c].pc # "done" /\ calls'[c].pc = "done" /\ calls'[c].ret.text = <<>>
                  => storage' = storage]_vars

\* The provider sent links and the call returned the empty result.
C5_Witness ==
    \E c \in Callers :
        /\ calls[c].pc = "done"
        /\ calls[c].useCache
        /\ calls[c].queried = 1
        /\ calls[c].raw.links # <<>>
        /\ calls[c].ret = EmptyResult
        /\ storage[cacheKey(calls[c].query)] = NoEntry

\* The age of the entry a cache read finds, and the lifetime the call read
\* when it started, in milliseconds.
AgeRead(c) == now - storage[cacheKey(calls[c].query)].timestamp
TtlRead(c) == calls[c].cacheLifetime * MsPerSec

\* What a cache read does with the entry it finds: treated as absent, the
\* entry is to be removed; otherwise it is returned.
ReadTreats(c, absent) ==
    LET e == storage[cacheKey(calls[c].query)]
    IN calls[c].pc = "getItem" /\ calls'[c].pc # "getItem" /\ e # NoEntry =>
           IF absent
           THEN calls'[c].pc = "removeItem"
           ELSE calls'[c].pc = "done" /\ calls'[c].ret = resultOf(e)

\* The removal comes before the query: the call leaves removeItem with the
\* entry gone and only then queries the provider.
RemovedBeforeQuery(c) ==
    calls[c].pc = "removeItem" /\ calls'[c].pc # "removeItem" =>
        /\ storage'[cacheKey(calls[c].query)] = NoEntry
        /\ calls'[c].pc = "query"
        /\ calls'[c].queried = 0

\* C6 as claimed: an entry counts as absent exactly when its age is at least
\* cacheLifetime * 1000, and is then removed before the provider is queried.
C6_ExpiredAtBoundary ==
    [][\A c \in Callers :
           ReadTreats(c, AgeRead(c) >= TtlRead(c)) /\ RemovedBeforeQuery(c)]_vars

\* C6 amended: an entry counts as absent exactly when its age is more than
\* cacheLifetime * 1000; an entry of exactly that age is still served.
C6_ExpiredPastBoundary ==
    [][\A c \in Callers :
           ReadTreats(c, AgeRead(c) > TtlRead(c)) /\ RemovedBeforeQuery(c)]_vars

\* A read found an entry one tick past its lifetime and is about to remove it.
C6_Witness ==
    \E c \in Callers :
        /\ calls[c].pc = "removeItem"
        /\ calls[c].cacheLifetime > 0
        /\ storage[cacheKey(calls[c].query)] # NoEntry
        /\ now - storage[cacheKey(calls[c].query)].timestamp
               = calls[c].cacheLifetime * MsPerSec + TickMs

\* C7 as claimed: no more than maxCount page fetches are issued.
C7_FetchesCapped == Len(visitor.attempted) <= visitor.maxCount

OkLinks(v) ==
    LET F[i \in 0..Len(v.settled)] ==
            IF i = 0 THEN <<>>
            ELSE IF v.settled[i] = "ok" THEN Append(F[i - 1], v.attempted[i])
            ELSE F[i - 1]
    IN F[Len(v.settled)]

\* C8: the results are at most maxCount, and their links are, in order, the
\* links whose fetch succeeded, all of them links of the input that
\* isAllowedUrl accepts.
C8_ResultsBoundedOrdered ==
    LET resultLinks == [i \in 1..Len(visitor.results) |-> visitor.results[i].link]
    IN visitor.pc \in {"fetching", "done"} =>
           /\ Len(visitor.results) <= visitor.maxCount
           /\ resultLinks = OkLinks(visitor)
           /\ IsSubsequence(resultLinks, visitor.links)
           /\ \A i \in 1..Len(resultLinks) : isAllowedUrl(resultLinks[i])

\* A refused link was skipped, a fetch failed, and maxCount (two) later links
\* were collected.
C8_Witness ==
    /\ visitor.pc = "done"
    /\ visitor.maxCount = 2
    /\ Len(visitor.results) = 2
    /\ ~isAllowedUrl(visitor.links[1])
    /\ \E i \in 1..Len(visitor.settled) : visitor.settled[i] # "ok"

\* C9 as claimed: no result of collectVisitResults has empty text.
C9_NoEmptyText ==
    \A i \in 1..Len(visitor.results) : visitor.results[i].text # <<>>

\* C10 as claimed: a parseable link is refused exactly when its hostname
\* contains the trimmed form of a blacklist entry that is not blank.
C10_BlockedIffContainsTrimmedEntry ==
    filter.pc = "done" /\ URLParses(filter.link) =>
        (filter.result = FALSE
            <=> \E k \in 1..Len(extension_settings.visit_blacklist) :
                    LET y == trim(extension_settings.visit_blacklist[k])
                    IN y # <<>> /\ includes(hostname(filter.link), y))

\* C11: every page fetch is issued for a link that parses as a URL and that
\* isAllowedUrl accepts under the blacklist in force in the step that examines
\* the link and issues the fetch.
C11_NoFetchOfRefusedLink ==
    [][\A n \in 1..Len(visitor'.attempted) :
           visitor.pc = "ready" \/ n > Len(visitor.attempted) =>
               /\ URLParses(visitor'.attempted[n])
               /\ isAllowedUrl(visitor'.attempted[n])]_vars

\* A link was fetched while it was allowed and is blacklisted by now, a later
\* copy of it was skipped, and so was a string that is no URL.
C11_Witness ==
    /\ visitor.pc = "done"
    /\ Len(visitor.results) < visitor.maxCount
    /\ Len(visitor.attempted) = 1
    /\ ~isAllowedUrl(visitor.attempted[1])
    /\ \E i, j, k \in 1..Len(visitor.links) :
           /\ i < j
           /\ visitor.links[i] = visitor.attempted[1]
           /\ visitor.links[j] = visitor.attempted[1]
           /\ visitor.links[k] = LinkBad

AllowedNow(link) == isAllowedUrl(link)

\* C12: collectVisitResults never rejects; a fetch that ends in a non-success
\* status, a transport error or an extraction error adds no result; and the
\* loop ends only at the cap or after every allowed link was fetched.
C12_FailedVisitsAbsent ==
    /\ visitor.pc # "rejected"
    /\ Len(visitor.results) = Len(OkLinks(visitor))
    /\ visitor.pc = "done" =>
           \/ Len(visitor.results) >= visitor.maxCount
           \/ visitor.attempted = SelectSeq(visitor.links, AllowedNow)

\* Three fetches failed, the last of them in the text extraction, and the
\* link after them was fetched and collected.
C12_Witness ==
    /\ visitor.pc = "done"
    /\ visitor.settled = <<"failed", "failed", "failed", "ok">>
    /\ visitor.failure = "extractThrows"
    /\ Len(visitor.results) = 1

\* A request failed: its promise rejected, or its status is not a success.
Failed(response) == response.status = "rejected" \/ ~response.ok

\* A request succeeded: a success status with a body that parses.
Succeeded(response) ==
    response.status = "fulfilled" /\ response.ok /\ response.parses

\* C13: with image inclusion on, a failed web request and a successful image
\* request leave no text bits, no links and the images of the image response;
\* a failed image request and a successful web request leave what the web
\* response yields, its own images included.
C13_FailureIsolated ==
    executor.pc = "done" /\ executor.includeImages =>
        /\ Failed(executor.webResponse) /\ Succeeded(executor.imageResponse) =>
               /\ ~executor.threw
               /\ executor.payload = [textBits |-> <<>>, links |-> <<>>,
                                      images |-> executor.imageResponse.data.images]
        /\ Failed(executor.imageResponse) /\ Succeeded(executor.webResponse) =>
               /\ ~executor.threw
               /\ executor.payload =
                      [textBits |-> webTextBits(executor.webResponse.data),
                       links |-> webLinks(executor.webResponse.data),
                       images |-> executor.webResponse.data.images]

\* The image request was rejected and the web response gave text, links and
\* images of its own.
C13_Witness ==
    /\ executor.pc = "done"
    /\ executor.includeImages
    /\ executor.imageResponse.status = "rejected"
    /\ executor.payload.textBits # <<>>
    /\ executor.payload.links # <<>>
    /\ executor.payload.images # <<>>

\* C14: whatever the provider requests end in, the call does not reject; when
\* the executor throws, the call returns the empty result and stores nothing.
C14_SearchNeverRejects ==
    /\ [](\A c \in Callers :
              /\ calls[c].pc # "rejected"
              /\ calls[c].pc = "done" /\ calls[c].threw =>
                     calls[c].raw = EmptyPayload /\ calls[c].ret = EmptyResult)
    /\ [][\A c \in Callers :
              calls[c].pc = "query" /\ calls'[c].pc # "query" =>
                  /\ calls'[c].pc \in {"done", "setItem"}
                  /\ calls'[c].threw => calls'[c].pc = "done" /\ storage' = storage]_vars

\* A cached search whose executor threw on a body that does not parse has
\* returned the empty result.
C14_Witness ==
    \E c \in Callers :
        /\ calls[c].pc = "done"
        /\ calls[c].useCache
        /\ calls[c].threw
        /\ calls[c].queried = 1
        /\ calls[c].ret = EmptyResult

\* C15: an invocation without arguments, without a query, with the empty
\* query or without a Serper key ends in an error, and the step that throws
\* it leaves every call and the cache as they were; a search starts only for
\* an invocation that has a query while the key is set.
C15_ToolFailsFast ==
    /\ [](invocation.made =>
              /\ ~invocation.args.present =>
                     invocation.error = "No arguments provided"
              /\ invocation.args.present /\ invocation.args.query \in {<<>>, <<"">>} =>
                     invocation.error = "No query provided")
    /\ [][/\ invocation' # invocation /\ invocation'.error # "" =>
                 calls' = calls /\ storage' = storage
          /\ invocation' # invocation /\ ~secret_state.api_key_serper =>
                 invocation'.error # "" /\ calls' = calls /\ storage' = storage
          /\ \A c \in Callers :
                 ~InFlight(c) /\ calls'[c].pc \notin {"idle", "done", "rejected"} =>
                     /\ invocation'.error = ""
                     /\ invocation'.args.query = <<calls'[c].query>>
                     /\ calls'[c].query # ""
                     /\ calls'[c].useCache
                     /\ secret_state.api_key_serper]_vars

\* After a search that stored its result the key was removed, and an
\* invocation with a query ended in the error, the entry untouched.
C15_Witness ==
    /\ invocation.error = "Search is not available"
    /\ invocation.args.query # <<>>
    /\ calls[1].pc = "done"
    /\ calls[1].queried = 1
    /\ storage[cacheKey(calls[1].query)] # NoEntry

\* C17: both tools are registered exactly when the extension is enabled.
C17_RegisteredIffEnabled ==
    /\ extension_settings.enabled => tools = ToolNames
    /\ ~extension_settings.enabled => tools = {}

\* The extension was enabled, its WebSearch tool ran a search, and it was
\* disabled again.
C17_Witness ==
    /\ ~extension_settings.enabled
    /\ tools = {}
    /\ invocation.made
    /\ invocation.error = ""
    /\ calls[1].pc = "done"

\* The pieces of a text that its newlines end, and what follows the last one.
Pieces(text) ==
    LET F[i \in 0..Len(text)] ==
            IF i = 0 THEN <<<<>>>>
            ELSE IF text[i] = NL THEN Append(F[i - 1], <<>>)
            ELSE [F[i - 1] EXCEPT ![Len(F[i - 1])] = Append(@, text[i])]
    IN F[Len(text)]

\* C16: an assembled text that is not empty ends with a newline, and every
\* newline in it ends a bit that is not empty: none starts the text and no
\* two follow each other, so there are as many newlines as bits appended,
\* which are no more than the distinct bits given.
C16_BitsEndWithOneNewline ==
    budgeter.pc = "done" =>
        LET text == budgeter.text
            pieces == Pieces(text)
        IN /\ text # <<>> => text[Len(text)] = NL
           /\ pieces[Len(pieces)] = <<>>
           /\ \A k \in 1..(Len(pieces) - 1) : pieces[k] # <<>>
           /\ Len(pieces) - 1 <= Len(onlyUnique(budgeter.textBits))

\* Two bits were appended, the second cut to the room left.
C16_Witness ==
    /\ budgeter.pc = "done"
    /\ Len(Pieces(budgeter.text)) = 3
    /\ Len(budgeter.text) = extension_settings.budget
    /\ \E i \in 1..Len(budgeter.textBits) :
           Len(budgeter.textBits[i]) > Len(Pieces(budgeter.text)[2])
               /\ Pieces(budgeter.text)[2] # <<>>

\* C18 as claimed: a cache store that rejects is not surfaced; no call of
\* performSearchRequest rejects.
C18_StoreFailureNotSurfaced ==
    \A c \in Callers : calls[c].pc # "rejected"

\* What a fresh computation returns for a payload under a budget.
FreshFrom(payload, budget) ==
    LET text == assembleText(payload.textBits, budget)
    IN IF text = <<>> THEN EmptyResult
       ELSE [text |-> text, links |-> onlyUnique(payload.links),
             images |-> onlyUnique(payload.images)]

\* C19: a call with useCache false queries the provider once, whatever the
\* cache holds, returns what the provider's payload gives under the budget,
\* and none of its steps changes the cache.
C19_UncachedLeavesCache ==
    /\ [](\A c \in Callers :
              calls[c].pc = "done" /\ ~calls[c].useCache => calls[c].queried = 1)
    /\ [][\A c \in Callers :
              /\ calls'[c] # calls[c] /\ calls'[c].pc # "idle" /\ ~calls'[c].useCache =>
                     storage' = storage
              /\ calls[c].pc = "query" /\ ~calls[c].useCache /\ calls'[c].pc # "query" =>
                     /\ calls'[c].pc = "done"
                     /\ calls'[c].ret =
                            FreshFrom(calls'[c].raw, extension_settings.budget)]_vars

\* A call with useCache false has returned a result other than the entry
\* that is in the cache for its query and would have been served.
C19_Witness ==
    \E c \in Callers :
        LET e == storage[cacheKey(calls[c].query)]
        IN /\ calls[c].pc = "done"
           /\ ~calls[c].useCache
           /\ calls[c].queried = 1
           /\ calls[c].ret.text # <<>>
           /\ e # NoEntry
           /\ ~isExpired(e, extension_settings.cacheLifetime, now)
           /\ resultOf(e) # calls[c].ret

\* C20: the step that serves a cache hit returns the entry without a query
\* and leaves the cache as it was; an entry is replaced only by the write of
\* a call that queried the provider, so no hit moves its timestamp.
C20_HitLeavesCache ==
    [][/\ \A c \in Callers :
              calls[c].pc = "getItem" /\ calls'[c].pc = "done" =>
                  /\ storage' = storage
                  /\ calls'[c].queried = 0
                  /\ calls'[c].ret = resultOf(storage[cacheKey(calls[c].query)])
       /\ \A k \in CacheKeys :
              storage'[k] # storage[k] /\ storage'[k] # NoEntry =>
                  \E c \in Callers :
                      /\ calls[c].pc = "setItem"
                      /\ calls[c].queried = 1
                      /\ storage'[k] = calls[c].entry]_vars

\* A hit was served, and a full lifetime after the entry was stored it still
\* bears the time it was stored at.
C20_Witness ==
    \E c \in Callers :
        LET e == storage[cacheKey(calls[c].query)]
        IN /\ calls[c].pc = "done"
           /\ calls[c].useCache
           /\ calls[c].queried = 0
           /\ calls[c].ret = resultOf(e)
           /\ e # NoEntry
           /\ extension_settings.cacheLifetime > 0
           /\ now - e.timestamp = extension_settings.cacheLifetime * MsPerSec

\* The key the claim names for a query: "query_" followed by the query as it
\* is written.
VerbatimKey(query) == <<"query_", query>>

\* C21: a step changes the cache only under the verbatim key of the query of
\* the call that takes the step, and a call served from the cache returns the
\* entry under the verbatim key of its own query, whatever other calls for
\* queries that differ in case or whitespace are doing.
C21_OnlyOwnKey ==
    [][/\ \A k \in DOMAIN storage :
              storage'[k] # storage[k] =>
                  \E c \in DOMAIN calls :
                      calls'[c] # calls[c] /\ k = VerbatimKey(calls[c].query)
       /\ \A c \in DOMAIN calls :
              calls[c].pc = "getItem" /\ calls'[c].pc = "done" =>
                  /\ VerbatimKey(calls[c].query) \in DOMAIN storage
                  /\ calls'[c].ret = resultOf(storage[VerbatimKey(calls[c].query)])]_vars

\* A call for "q" was served the stored entry of "q" while a call for "Q" is
\* about to write another entry, and the entry of "q " is not there.
C21_Witness ==
    /\ calls[1].pc = "done"
    /\ calls[1].query = "q"
    /\ calls[1].queried = 0
    /\ calls[1].ret = resultOf(StoredEntry)
    /\ calls[2].pc = "setItem"
    /\ calls[2].query = "Q"
    /\ calls[2].entry.text # StoredEntry.text
    /\ storage[VerbatimKey("q")] = StoredEntry
    /\ storage[VerbatimKey("q ")] = NoEntry

\* C22 as claimed: an entry is removed only if the entry that is in the cache
\* when it is removed is expired.
C22_RemovedOnlyIfExpired ==
    [][\A k \in DOMAIN storage :
           storage[k] # NoEntry /\ storage'[k] = NoEntry =>
               isExpired(storage[k], extension_settings.cacheLifetime, now)]_vars

\* C23: both requests are in flight as soon as the executor has sent; the
\* executor is done only when neither request is pending, no payload exists
\* before that, and the images of the payload are the images of the web
\* response followed by those of the image response, whichever of the two
\* requests settled first.
C23_JoinedBeforeParsing ==
    /\ [][executor.pc = "idle" /\ executor'.pc # "idle" =>
              /\ executor'.pc = "sent"
              /\ executor'.webResponse = Pending
              /\ executor'.includeImages => executor'.imageResponse = Pending]_vars
    /\ [](executor.pc = "sent" => executor.payload = EmptyPayload /\ ~executor.threw)
    /\ [](executor.pc = "done" =>
              /\ executor.webResponse # Pending
              /\ executor.imageResponse # Pending
              /\ ~executor.threw =>
                     executor.payload.images =
                         (IF executor.includeImages /\ Succeeded(executor.webResponse)
                          THEN executor.webResponse.data.images ELSE <<>>)
                         \o (IF Succeeded(executor.imageResponse)
                             THEN executor.imageResponse.data.images ELSE <<>>))

\* The image request settled first, and the payload has the image of the web
\* response before the images of the image response.
C23_Witness ==
    /\ executor.pc = "done"
    /\ executor.first = "image"
    /\ executor.webResponse = Ok(DataFull)
    /\ executor.imageResponse = Ok(DataImages)
    /\ executor.payload.images = <<Img1, Img2, Img1, Img2>>

\* C25: for a web response that succeeded, the text bits are the answer-box
\* bit, the knowledge-graph title bit and one bit per attribute in the given
\* order, one bit per organic result and one bit per related question, in
\* that order; the links are the organic links and then the links of the
\* related questions, the i-th link beside the i-th organic snippet even when
\* the snippet is empty; and no payload has images without image inclusion.
C25_BitsAndLinksInOrder ==
    executor.pc = "done" =>
        /\ executor.payload.images # <<>> => executor.includeImages
        /\ Succeeded(executor.webResponse) /\ ~executor.threw =>
               LET d == executor.webResponse.data
                   t == executor.payload.textBits
                   l == executor.payload.links
                   nA == Len(d.answerBox)
                   nK == IF d.knowledgeGraph = <<>> THEN 0
                         ELSE 1 + Len(d.knowledgeGraph[1].attributes)
                   nO == Len(d.organic)
                   nP == Len(d.peopleAlsoAsk)
               IN /\ Len(t) = nA + nK + nO + nP
                  /\ Len(l) = nO + nP
                  /\ nA = 1 =>
                         t[1] = d.answerBox[1].title \o <<" ">> \o d.answerBox[1].answer
                  /\ nK > 0 =>
                         /\ t[nA + 1] = d.knowledgeGraph[1].title \o <<" ">>
                                             \o d.knowledgeGraph[1].type
                         /\ \A j \in 1..(nK - 1) :
                                t[nA + 1 + j] =
                                    d.knowledgeGraph[1].attributes[j][1] \o <<":", " ">>
                                        \o d.knowledgeGraph[1].attributes[j][2]
                  /\ \A i \in 1..nO :
                         /\ t[nA + nK + i] = d.organic[i].snippet
                         /\ l[i] = d.organic[i].link
                  /\ \A j \in 1..nP :
                         /\ t[nA + nK + nO + j] =
                                d.peopleAlsoAsk[j].question \o <<" ">>
                                    \o d.peopleAlsoAsk[j].snippet
                         /\ l[nO + j] = d.peopleAlsoAsk[j].link

\* A response with every section, the first organic snippet empty: seven
\* bits, the empty one fifth, and three links.
C25_Witness ==
    /\ executor.pc = "done"
    /\ ~executor.includeImages
    /\ executor.webResponse = Ok(DataFull)
    /\ Len(executor.payload.textBits) = 7
    /\ executor.payload.textBits[5] = <<>>
    /\ executor.payload.textBits[7] = <<"a", " ", "a">>
    /\ executor.payload.links = <<LinkB, LinkE, LinkAB>>
    /\ executor.payload.images = <<>>

\* C24: a call that has entered the executor has sent one web request and,
\* exactly with image inclusion, one image request; requests are sent only
\* on entering the executor, not again when a request has failed, and a call
\* runs the executor at most once.
C24_OneRequestEach ==
    /\ [](\A c \in Callers :
              /\ calls[c].queried <= 1
              /\ calls[c].pc \in {"query", "setItem"} =>
                     /\ calls[c].requests.web = 1
                     /\ calls[c].requests.image = 1 <=> calls[c].includeImages
                     /\ calls[c].requests.image = 0 <=> ~calls[c].includeImages)
    /\ [][\A c \in Callers :
              /\ calls'[c].requests.web > calls[c].requests.web
                  \/ calls'[c].requests.image > calls[c].requests.image =>
                     calls[c].pc \notin {"query", "setItem"} /\ calls'[c].pc = "query"
              /\ calls'[c].queried > calls[c].queried =>
                     calls[c].pc = "query" /\ calls'[c].pc # "query"]_vars

\* Both requests of a call failed and the call returned the empty result
\* after a single run of the executor.
C24_Witness ==
    \E c \in Callers :
        /\ calls[c].pc = "done"
        /\ calls[c].queried = 1
        /\ calls[c].raw = EmptyPayload
        /\ calls[c].ret = EmptyResult
        /\ extension_settings.include_images

\* The values of s, each once, in the order of their first occurrence.
RECURSIVE FirstOccurrences(_, _)
FirstOccurrences(s, seen) ==
    IF s = <<>> THEN <<>>
    ELSE IF Head(s) \in seen THEN FirstOccurrences(Tail(s), seen)
    ELSE <<Head(s)>> \o FirstOccurrences(Tail(s), seen \cup {Head(s)})

\* The lines of a text, without what follows its last newline.
Lines(text) == SubSeq(Pieces(text), 1, Len(Pieces(text)) - 1)

\* Each line is a part of a bit of its own, the bits taken in their order
\* (every line is matched with the first bit after the previous match that
\* holds it, which finds a matching whenever there is one).
RECURSIVE ComeInOrderFrom(_, _)
ComeInOrderFrom(lines, bits) ==
    IF lines = <<>> THEN TRUE
    ELSE IF bits = <<>> THEN FALSE
    ELSE IF includes(Head(bits), Head(lines))
    THEN ComeInOrderFrom(Tail(lines), Tail(bits))
    ELSE ComeInOrderFrom(lines, Tail(bits))

\* The bits as they are after the ellipsis trimming, those it empties left out.
RECURSIVE TrimmedNonEmpty(_)
TrimmedNonEmpty(bits) ==
    IF bits = <<>> THEN <<>>
    ELSE (IF Head(bits) = <<>> \/ trimSnippet(Head(bits)) = <<>> THEN <<>>
          ELSE <<trimSnippet(Head(bits))>>)
         \o TrimmedNonEmpty(Tail(bits))

RECURSIVE LengthWithNewlines(_)
LengthWithNewlines(snippets) ==
    IF snippets = <<>> THEN 0
    ELSE Len(Head(snippets)) + 1 + LengthWithNewlines(Tail(snippets))

\* C26: the lines of the assembled text are parts of distinct bits in the
\* order of the first occurrences of those bits, none of them empty; when the
\* budget holds every bit, the lines are exactly the trimmed forms of the
\* distinct bits that trimming does not empty, so that equal bits give one
\* line and different bits with the same trimmed form give two; and the last
\* line was appended to a text shorter than the budget.
C26_DistinctBitsInOrder ==
    budgeter.pc = "done" =>
        LET lines == Lines(budgeter.text)
            distinct == FirstOccurrences(budgeter.textBits, {})
            snippets == TrimmedNonEmpty(distinct)
        IN /\ ComeInOrderFrom(lines, distinct)
           /\ \A k \in 1..Len(lines) : lines[k] # <<>>
           /\ LengthWithNewlines(snippets) <= extension_settings.budget =>
                  lines = snippets
           /\ lines # <<>> =>
                  Len(budgeter.text) - Len(lines[Len(lines)]) - 1
                      < extension_settings.budget

\* Two different bits that the ellipsis trimming makes equal give two equal
\* lines.
C26_Witness ==
    /\ budgeter.pc = "done"
    /\ budgeter.textBits = << <<"a", ".">>, <<"a", ".", ".", ".", ".">> >>
    /\ budgeter.text = <<"a", ".", NL, "a", ".", NL>>

\* The line is the bit cut inside a word: it is a proper beginning of the bit
\* that ends with a word character where the bit goes on with another.
CutMidWord(line, bit) ==
    /\ line # <<>>
    /\ Len(line) < Len(bit)
    /\ startsWith(bit, line)
    /\ line[Len(line)] \notin Punctuation \cup Whitespace
    /\ bit[Len(line) + 1] \notin Punctuation \cup Whitespace

\* C27 as claimed: what is appended of a bit that does not fit ends at a
\* sentence boundary, so no line is a bit cut inside a word. Stated for the
\* first line, which comes from the first bit when that bit begins with a
\* word and the budget leaves room for a character.
C27_NoLineCutMidWord ==
    budgeter.pc = "done" =>
        LET lines == Lines(budgeter.text)
            distinct == FirstOccurrences(budgeter.textBits, {})
        IN lines # <<>> /\ distinct # <<>> /\ startsWith(distinct[1], <<"a">>) =>
               ~CutMidWord(lines[1], distinct[1])

\* C28 as claimed: the text the earlier performSearchRequest assembles is no
\* longer than the budget, for all bits and every budget.
C28_Part000TextWithinBudget ==
    budgeter.pc = "done" => Len(budgeter.text) <= extension_settings.budget

\* C29 as claimed: the images the earlier doSerperQuery returns are those of
\* the web response followed by those of the image response, whichever of
\* the two requests completed first.
C29_Part000ImagesInOrder ==
    executor.pc = "done" =>
        executor.payload.images =
            (IF executor.includeImages /\ Succeeded(executor.webResponse)
             THEN executor.webResponse.data.images ELSE <<>>)
            \o (IF Succeeded(executor.imageResponse)
                THEN executor.imageResponse.data.images ELSE <<>>)

\* The links of a list that the filter lets through.
RECURSIVE Survivors(_)
Survivors(links) ==
    IF links = <<>> THEN <<>>
    ELSE (IF isAllowedUrl(Head(links)) THEN <<Head(links)>> ELSE <<>>)
         \o Survivors(Tail(links))

\* The blocks of the fetches that gave text, after the file header.
RECURSIVE BlocksOf(_)
BlocksOf(promises) ==
    IF promises = <<>> THEN <<>>
    ELSE (IF Head(promises).outcome.kind = "ok" /\ Head(promises).outcome.text # <<>>
          THEN <<"-", "-", "-", NL, "Information from ">> \o Head(promises).link
                   \o <<NL, NL>> \o Head(promises).outcome.text \o <<NL, NL>>
          ELSE <<>>)
         \o BlocksOf(Tail(promises))

\* C30: the earlier visitLinks fetches exactly the first min(visit_count,
\* number of surviving links) links that survive the filter, all of them
\* sent in the step that leaves the filter and none later; whatever order
\* the fetches settle in, the document returned is the file header followed
\* by the blocks of the fetches that gave text, in the order of the links,
\* and the empty string when none gave text.
C30_Part000FanOut ==
    /\ [](visitor.pc # "ready" =>
              LET survivors == Survivors(visitor.links)
                  n == IF extension_settings.visit_count < Len(survivors)
                       THEN extension_settings.visit_count ELSE Len(survivors)
              IN /\ Len(visitor.visitPromises) = n
                 /\ \A k \in 1..n : visitor.visitPromises[k].link = survivors[k])
    /\ [][visitor.pc = "ready" =>
              \A k \in 1..Len(visitor'.visitPromises) :
                  visitor'.visitPromises[k].outcome = PendingVisit]_vars
    /\ [](visitor.pc = "done" =>
              /\ \A k \in 1..Len(visitor.visitPromises) :
                     visitor.visitPromises[k].outcome # PendingVisit
              /\ visitor.ret =
                     IF BlocksOf(visitor.visitPromises) = <<>> THEN <<>>
                     ELSE <<"Web search results for ", "q", NL, NL>>
                              \o BlocksOf(visitor.visitPromises))

\* A refused link came first; of the two fetches the second settled first
\* and gave text, the first failed, and the document has one block.
C30_Witness ==
    /\ visitor.pc = "done"
    /\ visitor.outOfOrder
    /\ ~isAllowedUrl(visitor.links[1])
    /\ Len(visitor.visitPromises) = 2
    /\ visitor.visitPromises[1].outcome.kind = "rejected"
    /\ visitor.visitPromises[2].outcome = Page(<<"p">>)
    /\ visitor.ret = <<"Web search results for ", "q", NL, NL>>
                         \o <<"-", "-", "-", NL, "Information from ">>
                         \o visitor.visitPromises[2].link
                         \o <<NL, NL, "p", NL, NL>>

====
